---- MODULE Spec2Model ----
(***************************************************************************)
(* The crime-statistics dashboard of oasis-security: the CSV loader, the   *)
(* three aggregation functions and the render pass of main(), of           *)
(* src/app.py and of its near-duplicate                                    *)
(* src/notebooks/app_analyse_crimesdelits.py.                              *)
(*                                                                         *)
(* Text is a sequence of one-character strings, so that the regular        *)
(* expressions, zfill, the string comparisons of between() and the sorted  *)
(* group keys of groupby are computed as the code computes them.  An empty *)
(* CSV cell is read by read_csv as NaN; no cell of a parsed frame is the   *)
(* empty string, so the empty sequence stands for NaN.  Values are         *)
(* integers (the counts of the data set); floating-point rounding is not   *)
(* modelled.                                                               *)
(***************************************************************************)
EXTENDS Integers, Sequences, FiniteSets, TLC

VARIABLES
    script,               \* which of the two dashboards this process runs
    disk,                 \* the file system: candidate path -> file
    cache,                \* st.cache_data's memo of load_data()
    reads,                \* how many times load_data's body has run
    run,                  \* render passes started so far
    pc,                   \* position of the current render pass
    df,                   \* main's df
    selected_indicators,  \* main's selected_indicators (a list)
    selected_years,       \* main's selected_years (a list)
    national_data,        \* main's national_data
    overview,             \* the overview metrics of main
    stats,                \* main's stats
    dept_choice,          \* (dept_indicator, dept_year) of the two selectboxes
    dept_data,            \* main's dept_data
    top_15,               \* the rows create_departmental_chart plots
    screen,               \* what the current pass has shown
    last_outcome,         \* how the previous pass ended
    tree,                 \* export_structure: the directory at root_path
    max_depth,            \* export_structure: its max_depth argument
    export_pc,            \* export_structure: position of the call
    calls,                \* export_structure: the active calls of walk
    output_file           \* export_structure: the strings written to f

export_vars == <<tree, max_depth, export_pc, calls, output_file>>

dashboard_vars ==
    <<script, disk, cache, reads, run, pc, df, selected_indicators,
      selected_years, national_data, overview, stats, dept_choice,
      dept_data, top_15, screen, last_outcome>>

vars == <<dashboard_vars, export_vars>>

----------------------------------------------------------------------------
(* Text *)

NaN == << >>

Digits == {"0", "1", "2", "3", "4", "5", "6", "7", "8", "9"}

Whitespace == {" ", "\n"}

\* The code point of a character of the model's alphabet.
Ord(c) ==
    CASE c = "\n" -> 10 [] c = " " -> 32 [] c = "," -> 44 [] c = "-" -> 45
      [] c = "0" -> 48 [] c = "1" -> 49 [] c = "2" -> 50 [] c = "3" -> 51
      [] c = "4" -> 52 [] c = "5" -> 53 [] c = "6" -> 54 [] c = "7" -> 55
      [] c = "8" -> 56 [] c = "9" -> 57
      [] c = "A" -> 65 [] c = "B" -> 66 [] c = "C" -> 67 [] c = "V" -> 86
      [] c = "a" -> 97 [] c = "i" -> 105 [] c = "l" -> 108 [] c = "m" -> 109
      [] c = "n" -> 110 [] c = "o" -> 111
      [] c = "." -> 46 [] c = "_" -> 95 [] c = "c" -> 99 [] c = "e" -> 101
      [] c = "g" -> 103 [] c = "h" -> 104 [] c = "p" -> 112 [] c = "t" -> 116
      [] c = "v" -> 118 [] c = "y" -> 121

DigitValue(c) == Ord(c) - 48

\* Python's str comparison: lexicographic by code point, a prefix first.
RECURSIVE StrLess(_, _)
StrLess(a, b) ==
    IF b = << >> THEN FALSE
    ELSE IF a = << >> THEN TRUE
    ELSE IF a[1] = b[1] THEN StrLess(Tail(a), Tail(b))
    ELSE Ord(a[1]) < Ord(b[1])

StrLeq(a, b) == a = b \/ StrLess(a, b)

RECURSIVE LStrip(_)
LStrip(s) == IF s # << >> /\ s[1] \in Whitespace THEN LStrip(Tail(s)) ELSE s

RECURSIVE RStrip(_)
RStrip(s) ==
    IF s # << >> /\ s[Len(s)] \in Whitespace
    THEN RStrip(SubSeq(s, 1, Len(s) - 1)) ELSE s

AllDigits(s) == s # << >> /\ \A i \in 1..Len(s) : s[i] \in Digits

\* A cell read_csv's type inference, int() and to_numeric take for an integer:
\* decimal digits, white space around them allowed.
IsIntLiteral(s) == AllDigits(RStrip(LStrip(s)))

RECURSIVE DecimalValue(_)
DecimalValue(s) ==
    IF s = << >> THEN 0
    ELSE 10 * DecimalValue(SubSeq(s, 1, Len(s) - 1)) + DigitValue(s[Len(s)])

ParseInt(s) == DecimalValue(RStrip(LStrip(s)))

----------------------------------------------------------------------------
(* The source file and the loader *)

possible_paths ==
    << "data/serieschrono-datagouv.csv", "serieschrono-datagouv.csv",
       "../data/serieschrono-datagouv.csv" >>

\* The one path the notebook script reads.
nb_path == "serieschrono-datagouv.csv"

Paths == {possible_paths[i] : i \in 1..Len(possible_paths)}

required_columns == {"Unite_temps", "Zone_geographique", "Valeurs", "Indicateur"}

kept_columns == required_columns \cup {"Code_dep"}

\* A path with no file behind it: read_csv raises FileNotFoundError.
NoFile == [exists |-> FALSE, columns |-> {}, rows |-> << >>]

\* A DataFrame or None.
None == [none |-> TRUE, rows |-> << >>, year_dtype |-> "int64"]

\* read_csv's type inference: a column all of whose cells are integers or
\* empty is numeric (int64, float64); a header-only file has object columns.
IsNumericColumn(rows, col) ==
    /\ rows # << >>
    /\ \A i \in 1..Len(rows) : rows[i][col] = NaN \/ IsIntLiteral(rows[i][col])

\* Series.str.extract(r'^(\d{2,3})'): the two or (greedily) three leading
\* digits, NaN when the text does not start with two digits.
str_extract(zone) ==
    IF Len(zone) >= 2 /\ zone[1] \in Digits /\ zone[2] \in Digits
    THEN IF Len(zone) >= 3 /\ zone[3] \in Digits
         THEN SubSeq(zone, 1, 3) ELSE SubSeq(zone, 1, 2)
    ELSE NaN

\* Series.str.match(r'^[0-9]{2}$') is re.match: two digits from the start,
\* then the end of the text, which '$' also finds before a final line feed.
str_match(code) ==
    /\ Len(code) >= 2
    /\ code[1] \in Digits
    /\ code[2] \in Digits
    /\ \/ Len(code) = 2
       \/ Len(code) = 3 /\ code[3] = "\n"

RECURSIVE zfill(_, _)
zfill(s, width) == IF Len(s) >= width THEN s ELSE zfill(<<"0">> \o s, width)

\* Series.between(left, right) on str: both ends inclusive.
between(s, left, right) == StrLeq(left, s) /\ StrLeq(s, right)

\* dropna(subset=['Valeurs']).
dropna_subset(rows) == SelectSeq(rows, LAMBDA r : r.Valeurs # NaN)

dropna(rows) ==
    SelectSeq(rows, LAMBDA r : \A c \in kept_columns : r[c] # NaN)

\* pd.to_numeric(errors='coerce') of one cell.
to_numeric(cell) ==
    IF IsIntLiteral(cell) THEN [nan |-> FALSE, num |-> ParseInt(cell)]
    ELSE [nan |-> TRUE, num |-> 0]

\* The first candidate path that read_csv can read; 0 when none is there.
RECURSIVE FirstReadable(_, _)
FirstReadable(d, i) ==
    IF i > Len(possible_paths) THEN 0
    ELSE IF d[possible_paths[i]].exists THEN i
    ELSE FirstReadable(d, i + 1)

\* The dtype read_csv gives the year column: int64 when every cell is an
\* integer, float64 when some cell is empty, object otherwise.
year_dtype(rows) ==
    IF rows # << >> /\ ~IsNumericColumn(rows, "Unite_temps") THEN "object"
    ELSE IF \E i \in 1..Len(rows) : rows[i].Unite_temps = NaN THEN "float64"
    ELSE "int64"

\* A DataFrame: its rows and the dtype of its year column.
Frame(rows, dtype) == [none |-> FALSE, rows |-> rows, year_dtype |-> dtype]

\* Lines 116-123 of app.py (51-58 of the notebook): dropna, to_numeric,
\* dropna, then the three steps of the 01-95 filter.
filter_rows(rows) ==
    LET kept    == dropna(rows)
        coerced == SelectSeq(kept, LAMBDA r : ~to_numeric(r.Valeurs).nan)
        matched == SelectSeq(coerced, LAMBDA r : str_match(r.Code_dep))
        padded  == [i \in 1..Len(matched) |->
                      [matched[i] EXCEPT !.Code_dep = zfill(matched[i].Code_dep, 2)]]
    IN  SelectSeq(padded,
                  LAMBDA r : between(r.Code_dep, <<"0", "1">>, <<"9", "5">>))

\* The typed row of the cleaned frame.
typed_row(r, year) ==
    [Unite_temps |-> year,
     Zone_geographique |-> r.Zone_geographique,
     Valeurs |-> to_numeric(r.Valeurs).num,
     Indicateur |-> r.Indicateur,
     Code_dep |-> r.Code_dep]

\* Lines 114-128 of app.py, on the rows of a frame with its five columns.
\* numeric_code: the Code_dep column was read as numbers, and then has no
\* .str accessor (AttributeError).  A year that is no integer fails
\* astype(int) (ValueError).  Both end in the outer except.
clean_rows(rows, numeric_code) ==
    LET metro == filter_rows(rows) IN
    IF numeric_code \/ \E i \in 1..Len(metro) : ~IsIntLiteral(metro[i].Unite_temps)
    THEN [value |-> None, msgs |-> {"error_exception"}, error |-> "Exception"]
    ELSE [value |-> Frame([i \in 1..Len(metro) |->
                             typed_row(metro[i], ParseInt(metro[i].Unite_temps))],
                          "int64"),
          msgs |-> {}, error |-> "none"]

\* load_data of app.py returning an empty frame, not None, on its two early
\* returns.
load_data_empty_frame(d) ==
    LET p == FirstReadable(d, 1) IN
    IF p = 0
    THEN [value |-> Frame(<< >>, "int64"),
          msgs |-> {"error_not_found", "info_how_to"}, error |-> "DataNotFound"]
    ELSE
      LET f == d[possible_paths[p]]
          derived == [i \in 1..Len(f.rows) |->
                        [f.rows[i] EXCEPT
                           !.Code_dep = str_extract(f.rows[i].Zone_geographique)]]
          res == IF "Code_dep" \in f.columns
                 THEN clean_rows(f.rows, IsNumericColumn(f.rows, "Code_dep"))
                 ELSE IF IsNumericColumn(f.rows, "Zone_geographique")
                      THEN [value |-> None, msgs |-> {"error_exception"},
                            error |-> "Exception"]
                      ELSE clean_rows(derived, FALSE)
      IN  IF required_columns \ f.columns # {}
          THEN [value |-> Frame(<< >>, "int64"),
                msgs |-> {"sidebar_success", "error_missing_cols", "info_columns"},
                error |-> "SchemaError"]
          ELSE [value |-> res.value,
                msgs |-> res.msgs \cup {"sidebar_success"},
                error |-> res.error]

\* load_data of app.py: the value returned and the messages it shows.
load_data(d) ==
    LET p == FirstReadable(d, 1) IN
    IF p = 0
    THEN [value |-> None, msgs |-> {"error_not_found", "info_how_to"},
          error |-> "DataNotFound"]
    ELSE
      LET f == d[possible_paths[p]]
          derived == [i \in 1..Len(f.rows) |->
                        [f.rows[i] EXCEPT
                           !.Code_dep = str_extract(f.rows[i].Zone_geographique)]]
          res == IF "Code_dep" \in f.columns
                 THEN clean_rows(f.rows, IsNumericColumn(f.rows, "Code_dep"))
                 ELSE IF IsNumericColumn(f.rows, "Zone_geographique")
                      THEN [value |-> None, msgs |-> {"error_exception"},
                            error |-> "Exception"]
                      ELSE clean_rows(derived, FALSE)
      IN  IF required_columns \ f.columns # {}
          THEN [value |-> None,
                msgs |-> {"sidebar_success", "error_missing_cols", "info_columns"},
                error |-> "SchemaError"]
          ELSE [value |-> res.value,
                msgs |-> res.msgs \cup {"sidebar_success"},
                error |-> res.error]

\* load_data of the notebook script: one path, Code_dep required (a missing
\* column is a KeyError caught by the general except), the year left as read.
nb_load_data(d) ==
    LET f == d[nb_path]
        metro == filter_rows(f.rows)
        dtype == year_dtype(f.rows)
    IN  IF ~f.exists
        THEN [value |-> None, msgs |-> {"error_not_found"},
              error |-> "DataNotFound"]
        ELSE IF kept_columns \ f.columns # {}
        THEN [value |-> None, msgs |-> {"error_exception"}, error |-> "SchemaError"]
        ELSE IF IsNumericColumn(f.rows, "Code_dep")
        THEN [value |-> None, msgs |-> {"error_exception"}, error |-> "Exception"]
        ELSE [value |-> Frame([i \in 1..Len(metro) |->
                                 typed_row(metro[i],
                                    IF dtype = "object" THEN metro[i].Unite_temps
                                    ELSE ParseInt(metro[i].Unite_temps))],
                              dtype),
              msgs |-> {}, error |-> "none"]

----------------------------------------------------------------------------
(* The aggregation functions *)

Range(s) == {s[i] : i \in 1..Len(s)}

RECURSIVE SumValeurs(_)
SumValeurs(rows) ==
    IF rows = << >> THEN 0 ELSE rows[1].Valeurs + SumValeurs(Tail(rows))

\* The order of the group keys (year, indicator) of groupby(sort=True).
KeyLess(a, b) ==
    \/ a[1] < b[1]
    \/ a[1] = b[1] /\ StrLess(a[2], b[2])

RECURSIVE SortedKeys(_)
SortedKeys(S) ==
    IF S = {} THEN << >>
    ELSE LET k == CHOOSE x \in S : \A y \in S \ {x} : KeyLess(x, y)
         IN  <<k>> \o SortedKeys(S \ {k})

\* The distinct years of a table, ascending.
YearsOf(rows) ==
    LET keys == SortedKeys({<<rows[i].Unite_temps, << >> >> : i \in 1..Len(rows)})
    IN  [k \in 1..Len(keys) |-> keys[k][1]]

RECURSIVE SortedZones(_)
SortedZones(S) ==
    IF S = {} THEN << >>
    ELSE LET z == CHOOSE x \in S : \A y \in S \ {x} : StrLess(x, y)
         IN  <<z>> \o SortedZones(S \ {z})

\* get_national_statistics without the filter on the years.
get_national_statistics_all_years(rows, indicators, years) ==
    LET filtered_df == SelectSeq(rows, LAMBDA r : r.Indicateur \in Range(indicators))
        keys == SortedKeys({<<filtered_df[i].Unite_temps, filtered_df[i].Indicateur>> :
                              i \in 1..Len(filtered_df)})
    IN  [k \in 1..Len(keys) |->
           [Unite_temps |-> keys[k][1],
            Indicateur |-> keys[k][2],
            Valeurs |-> SumValeurs(SelectSeq(filtered_df, LAMBDA r :
                            r.Unite_temps = keys[k][1] /\ r.Indicateur = keys[k][2]))]]

\* get_national_statistics: the isin filter, then groupby(['Unite_temps',
\* 'Indicateur'])['Valeurs'].sum().reset_index(): one row per observed key,
\* in key order.
get_national_statistics(rows, indicators, years) ==
    LET filtered_df == SelectSeq(rows, LAMBDA r :
                          /\ r.Indicateur \in Range(indicators)
                          /\ r.Unite_temps \in Range(years))
        keys == SortedKeys({<<filtered_df[i].Unite_temps, filtered_df[i].Indicateur>> :
                              i \in 1..Len(filtered_df)})
    IN  [k \in 1..Len(keys) |->
           [Unite_temps |-> keys[k][1],
            Indicateur |-> keys[k][2],
            Valeurs |-> SumValeurs(SelectSeq(filtered_df, LAMBDA r :
                            r.Unite_temps = keys[k][1] /\ r.Indicateur = keys[k][2]))]]

\* sort_values('Unite_temps'): insertion of each row after the rows whose
\* year is not greater (rows of equal year keep their order).
RECURSIVE sort_by_year(_)
sort_by_year(rows) ==
    IF rows = << >> THEN << >>
    ELSE LET rest == sort_by_year(SubSeq(rows, 1, Len(rows) - 1))
             last == rows[Len(rows)]
         IN  SelectSeq(rest, LAMBDA r : r.Unite_temps <= last.Unite_temps)
               \o <<last>>
               \o SelectSeq(rest, LAMBDA r : r.Unite_temps > last.Unite_temps)

RECURSIVE MaxValeurs(_)
MaxValeurs(rows) ==
    IF Len(rows) = 1 THEN rows[1].Valeurs
    ELSE LET m == MaxValeurs(Tail(rows))
         IN  IF rows[1].Valeurs >= m THEN rows[1].Valeurs ELSE m

RECURSIVE MinValeurs(_)
MinValeurs(rows) ==
    IF Len(rows) = 1 THEN rows[1].Valeurs
    ELSE LET m == MinValeurs(Tail(rows))
         IN  IF rows[1].Valeurs <= m THEN rows[1].Valeurs ELSE m

\* The position of the last row holding value v.
LastAt(rows, v) ==
    CHOOSE i \in 1..Len(rows) :
        rows[i].Valeurs = v /\ \A j \in (i + 1)..Len(rows) : rows[j].Valeurs # v

\* The position of the first row holding value v (idxmax, idxmin, and the
\* first match of a boolean mask).
FirstAt(rows, v) ==
    CHOOSE i \in 1..Len(rows) :
        rows[i].Valeurs = v /\ \A j \in 1..(i - 1) : rows[j].Valeurs # v

\* The quotient without the test of the first value.
evolution_pct_unguarded(first_value, last_value) ==
    [num |-> (last_value - first_value) * 100, den |-> first_value]

\* (last - first) / first * 100 as the exact quotient num / den; 0 when the
\* first value is 0.
evolution_pct(first_value, last_value) ==
    IF first_value # 0
    THEN [num |-> (last_value - first_value) * 100, den |-> first_value]
    ELSE [num |-> 0, den |-> 1]

\* The statistics of one indicator's rows, sorted by year (app.py 182-210).
indicator_stats(indicator_data) ==
    LET first_value == indicator_data[1].Valeurs
        last_value  == indicator_data[Len(indicator_data)].Valeurs
        max_value   == MaxValeurs(indicator_data)
        min_value   == MinValeurs(indicator_data)
    IN  [first_value |-> first_value,
         last_value  |-> last_value,
         first_year  |-> indicator_data[1].Unite_temps,
         last_year   |-> indicator_data[Len(indicator_data)].Unite_temps,
         evolution_abs |-> last_value - first_value,
         evolution_pct |-> evolution_pct(first_value, last_value),
         total_cases |-> SumValeurs(indicator_data),
         mean_annual |-> [num |-> SumValeurs(indicator_data),
                          den |-> Len(indicator_data)],
         max_value |-> max_value,
         min_value |-> min_value,
         max_year |-> indicator_data[FirstAt(indicator_data, max_value)].Unite_temps,
         min_year |-> indicator_data[FirstAt(indicator_data, min_value)].Unite_temps]

\* The rows of one indicator, sorted by year.
indicator_rows(national, indicator) ==
    sort_by_year(SelectSeq(national, LAMBDA r : r.Indicateur = indicator))

\* The test of line 181 as len(indicator_data) > 0.
has_stats_nonempty(indicator_data) == Len(indicator_data) > 0

\* Whether calculate_statistics gives the indicator an entry (line 181).
has_stats(indicator_data) == Len(indicator_data) > 1

\* calculate_statistics: the dict, as a function on its keys.
calculate_statistics(national, indicators) ==
    LET keys == {ind \in Range(indicators) :
                    has_stats(indicator_rows(national, ind))}
    IN  [ind \in keys |-> indicator_stats(indicator_rows(national, ind))]

\* The year of the last row of the boolean mask (.iloc[-1]).
mask_last(rows, v) ==
    LET hits == SelectSeq(rows, LAMBDA r : r.Valeurs = v)
    IN  hits[Len(hits)].Unite_temps

\* indicator_data[indicator_data['Valeurs'] == v]['Unite_temps'].iloc[0] of
\* the notebook (lines 168-169): the year of the first row of the mask.
mask_first(rows, v) ==
    SelectSeq(rows, LAMBDA r : r.Valeurs = v)[1].Unite_temps

\* The statistics of one indicator's rows in the notebook (lines 156-184).
nb_indicator_stats(indicator_data) ==
    LET first_value == indicator_data[1].Valeurs
        last_value  == indicator_data[Len(indicator_data)].Valeurs
        max_value   == MaxValeurs(indicator_data)
        min_value   == MinValeurs(indicator_data)
    IN  [first_value |-> first_value,
         last_value  |-> last_value,
         first_year  |-> indicator_data[1].Unite_temps,
         last_year   |-> indicator_data[Len(indicator_data)].Unite_temps,
         evolution_abs |-> last_value - first_value,
         evolution_pct |-> evolution_pct(first_value, last_value),
         total_cases |-> SumValeurs(indicator_data),
         mean_annual |-> [num |-> SumValeurs(indicator_data),
                          den |-> Len(indicator_data)],
         max_value |-> max_value,
         min_value |-> min_value,
         max_year |-> mask_first(indicator_data, max_value),
         min_year |-> mask_first(indicator_data, min_value)]

\* calculate_statistics of the notebook: the same filter, sort and test of
\* len(indicator_data) > 1 (lines 153-155) as app.py.
nb_calculate_statistics(national, indicators) ==
    LET keys == {ind \in Range(indicators) :
                    has_stats(indicator_rows(national, ind))}
    IN  [ind \in keys |-> nb_indicator_stats(indicator_rows(national, ind))]

\* The per-year table with .first() in the place of .sum().
year_totals_first(national) ==
    LET years == YearsOf(national)
    IN  [k \in 1..Len(years) |->
           [Unite_temps |-> years[k],
            Valeurs |-> SelectSeq(national, LAMBDA r :
                            r.Unite_temps = years[k])[1].Valeurs]]

\* national_data.groupby('Unite_temps')['Valeurs'].sum() (line 517): one
\* total per year of the national series, in year order.
year_totals(national) ==
    LET years == YearsOf(national)
    IN  [k \in 1..Len(years) |->
           [Unite_temps |-> years[k],
            Valeurs |-> SumValeurs(SelectSeq(national, LAMBDA r :
                            r.Unite_temps = years[k]))]]

\* national_data[national_data['Unite_temps'] == year]['Valeurs'].sum().
total_of_year(national, year) ==
    SumValeurs(SelectSeq(national, LAMBDA r : r.Unite_temps = year))

\* max() and min() of the list of selected years.
MaxOf(years) == CHOOSE y \in Range(years) : \A z \in Range(years) : z <= y

MinOf(years) == CHOOSE y \in Range(years) : \A z \in Range(years) : y <= z

\* The overview comparing the first and the last year that have data.
overview_metrics_observed(national, years) ==
    LET observed      == YearsOf(national)
        total_current == total_of_year(national, observed[Len(observed)])
        total_first   == total_of_year(national, observed[1])
        totals        == year_totals(national)
    IN  [total_current |-> total_current,
         total_first   |-> total_first,
         evolution_pct |-> evolution_pct(total_first, total_current),
         year_totals   |-> totals,
         mean_annual   |-> [num |-> SumValeurs(totals), den |-> Len(totals)]]

\* The overview metrics of main (lines 504-517).
overview_metrics(national, years) ==
    LET total_current == total_of_year(national, MaxOf(years))
        total_first   == total_of_year(national, MinOf(years))
        totals        == year_totals(national)
    IN  [total_current |-> total_current,
         total_first   |-> total_first,
         evolution_pct |-> evolution_pct(total_first, total_current),
         year_totals   |-> totals,
         mean_annual   |-> [num |-> SumValeurs(totals), den |-> Len(totals)]]

\* A departmental table or None.
NoTable == [none |-> TRUE, rows |-> << >>]

Table(rows) == [none |-> FALSE, rows |-> rows]

\* The grouping with .first() in the place of .sum().
group_by_zone_first(rows) ==
    LET zones == SortedZones({rows[i].Zone_geographique : i \in 1..Len(rows)})
    IN  [k \in 1..Len(zones) |->
           [Zone_geographique |-> zones[k],
            Valeurs |-> SelectSeq(rows, LAMBDA r :
                            r.Zone_geographique = zones[k])[1].Valeurs]]

\* groupby('Zone_geographique')['Valeurs'].sum().reset_index(): one row per
\* zone, in zone order.
group_by_zone(rows) ==
    LET zones == SortedZones({rows[i].Zone_geographique : i \in 1..Len(rows)})
    IN  [k \in 1..Len(zones) |->
           [Zone_geographique |-> zones[k],
            Valeurs |-> SumValeurs(SelectSeq(rows, LAMBDA r :
                            r.Zone_geographique = zones[k]))]]

\* sort_values('Valeurs') without ascending=False.
RECURSIVE sort_values_asc(_)
sort_values_asc(S) ==
    IF S = {} THEN {<< >>}
    ELSE LET low == {r \in S : \A q \in S : r.Valeurs <= q.Valeurs}
         IN  UNION {{<<t>> \o rest : rest \in sort_values_asc(S \ {t})} : t \in low}

\* sort_values('Valeurs', ascending=False) with the default kind='quicksort',
\* which is not stable: every descending arrangement of the rows is a
\* possible result.  The rows are distinct (one per zone).
RECURSIVE sort_values_desc(_)
sort_values_desc(S) ==
    IF S = {} THEN {<< >>}
    ELSE LET top == {r \in S : \A q \in S : q.Valeurs <= r.Valeurs}
         IN  UNION {{<<t>> \o rest : rest \in sort_values_desc(S \ {t})} : t \in top}

\* The 15 of dept_data.head(15) in create_departmental_chart.
TopN == 15

\* DataFrame.head(n).
head(rows, n) == SubSeq(rows, 1, IF Len(rows) < n THEN Len(rows) ELSE n)

\* create_departmental_analysis cutting its table to the first 15 rows.
create_departmental_analysis_top(rows, selected_indicator, selected_year) ==
    LET dept_rows == SelectSeq(rows, LAMBDA r :
                        /\ r.Indicateur = selected_indicator
                        /\ r.Unite_temps = selected_year)
    IN  IF dept_rows = << >> THEN {NoTable}
        ELSE {Table(head(t, TopN)) :
                 t \in sort_values_desc(Range(group_by_zone(dept_rows)))}

\* create_departmental_analysis without the test of dept_data.empty.
create_departmental_analysis_no_test(rows, selected_indicator, selected_year) ==
    LET dept_rows == SelectSeq(rows, LAMBDA r :
                        /\ r.Indicateur = selected_indicator
                        /\ r.Unite_temps = selected_year)
    IN  {Table(t) : t \in sort_values_desc(Range(group_by_zone(dept_rows)))}

\* create_departmental_analysis: the set of its possible results.
create_departmental_analysis(rows, selected_indicator, selected_year) ==
    LET dept_rows == SelectSeq(rows, LAMBDA r :
                        /\ r.Indicateur = selected_indicator
                        /\ r.Unite_temps = selected_year)
    IN  IF dept_rows = << >> THEN {NoTable}
        ELSE {Table(t) : t \in sort_values_desc(Range(group_by_zone(dept_rows)))}

----------------------------------------------------------------------------
(* The render pass of main() *)

MaxRuns == 2

\* The two dashboards.
Scripts == {"app", "notebook"}

\* load_data's body, of the script that runs.
load_body(d, s) == IF s = "app" THEN load_data(d) ELSE nb_load_data(d)

\* load_data without its decorator: every call runs the body.
cache_data_no_store(c, d, s) == [result |-> load_body(d, s), ran |-> TRUE]

\* @st.cache_data on load_data(), which takes no argument: the first call
\* runs the body and stores what it returned and showed, None included; every
\* later call of the process is answered from the store.
cache_data(c, d, s) ==
    IF c.set THEN [result |-> c.result, ran |-> FALSE]
    ELSE [result |-> load_body(d, s), ran |-> TRUE]

NoResult == [value |-> None, msgs |-> {}, error |-> "none"]

\* The locals of main before the pass has computed anything.
\* export_structure is a script of its own: the dashboards never call it.
NotExporting ==
    /\ tree = << >>
    /\ max_depth = 0
    /\ export_pc = "absent"
    /\ calls = << >>
    /\ output_file = << >>

Idle ==
    /\ selected_indicators = << >>
    /\ selected_years = << >>
    /\ national_data = << >>
    /\ overview = << >>
    /\ stats = << >>
    /\ dept_choice = << >>
    /\ dept_data = NoTable
    /\ top_15 = << >>

\* The elements of a set of years, and of a set of texts, in ascending order.
YearList(S) ==
    LET keys == SortedKeys({<<y, << >> >> : y \in S})
    IN  [i \in 1..Len(keys) |-> keys[i][1]]

IndicatorList(S) == SortedZones(S)

\* list(range(lo, hi + 1)).
range(lo, hi) == [i \in 1..(hi + 1 - lo) |-> lo + i - 1]

\* sorted(df[col].unique()).
available_indicators(rows) == {rows[i].Indicateur : i \in 1..Len(rows)}

available_years(rows) == {rows[i].Unite_temps : i \in 1..Len(rows)}

Ended == {"stopped", "failed", "done"}

\* Lines 419-423: df = load_data(); st.stop() when it is None.
Load ==
    /\ pc = "start"
    /\ UNCHANGED export_vars
    /\ LET call == cache_data(cache, disk, script) IN
         /\ cache' = [set |-> TRUE, result |-> call.result]
         /\ reads' = IF call.ran THEN reads + 1 ELSE reads
         /\ df' = call.result.value
         /\ screen' = call.result.msgs
         /\ pc' = IF call.result.value.none THEN "stopped" ELSE "sidebar"
         /\ last_outcome' = IF call.result.value.none THEN call.result.error
                            ELSE last_outcome
    /\ UNCHANGED <<script, disk, run, selected_indicators, selected_years,
                   national_data, overview, stats, dept_choice, dept_data, top_15>>

\* Lines 429-485: the widgets of the sidebar.  min() of no year raises
\* ValueError; the notebook hands the slider's values to range() as they were
\* read, which raises TypeError unless they are int.  The multiselect's list
\* is taken in the order of its options, and is made before the slider.
Sidebar ==
    /\ pc = "sidebar"
    /\ UNCHANGED export_vars
    /\ IF df.rows = << >> \/ df.year_dtype # "int64"
       THEN \E inds \in SUBSET available_indicators(df.rows) :
              /\ selected_indicators' = IndicatorList(inds)
              /\ pc' = "failed"
              /\ last_outcome' = "Exception"
              /\ screen' = screen \cup {"sidebar", "exception"}
              /\ UNCHANGED selected_years
       ELSE \E inds \in SUBSET available_indicators(df.rows),
               lo \in available_years(df.rows), hi \in available_years(df.rows) :
              /\ lo <= hi
              /\ selected_indicators' = IndicatorList(inds)
              /\ selected_years' = range(lo, hi)
              /\ IF inds = {}
                 THEN /\ screen' = screen \cup {"sidebar", "warning_select"}
                      /\ pc' = "stopped"
                      /\ last_outcome' = "EmptySelection"
                 ELSE /\ screen' = screen \cup {"sidebar"}
                      /\ pc' = "aggregate"
                      /\ UNCHANGED last_outcome
    /\ UNCHANGED <<script, disk, cache, reads, run, df, national_data, overview,
                   stats, dept_choice, dept_data, top_15>>

\* The national step dropping the unselected rows from df itself
\* (df.drop(..., inplace=True)) before it aggregates.
National_in_place ==
    /\ pc = "aggregate"
    /\ UNCHANGED export_vars
    /\ df' = [df EXCEPT !.rows = SelectSeq(df.rows, LAMBDA r :
                                     /\ r.Indicateur \in Range(selected_indicators)
                                     /\ r.Unite_temps \in Range(selected_years))]
    /\ national_data' =
         get_national_statistics(df.rows, selected_indicators, selected_years)
    /\ IF national_data' = << >>
       THEN /\ screen' = screen \cup {"warning_no_data"}
            /\ pc' = "stopped"
            /\ last_outcome' = "EmptySelection"
       ELSE /\ pc' = "overview"
            /\ UNCHANGED <<screen, last_outcome>>
    /\ UNCHANGED <<script, disk, cache, reads, run, selected_indicators,
                   selected_years, overview, stats, dept_choice, dept_data, top_15>>

\* Lines 491-495: the national series; st.stop() when it is empty.
National ==
    /\ pc = "aggregate"
    /\ UNCHANGED export_vars
    /\ national_data' =
         get_national_statistics(df.rows, selected_indicators, selected_years)
    /\ IF national_data' = << >>
       THEN /\ screen' = screen \cup {"warning_no_data"}
            /\ pc' = "stopped"
            /\ last_outcome' = "EmptySelection"
       ELSE /\ pc' = "overview"
            /\ UNCHANGED <<screen, last_outcome>>
    /\ UNCHANGED <<script, disk, cache, reads, run, df, selected_indicators,
                   selected_years, overview, stats, dept_choice, dept_data, top_15>>

\* Lines 501-572: the overview metrics and the evolution charts.
Overview ==
    /\ pc = "overview"
    /\ UNCHANGED export_vars
    /\ overview' = overview_metrics(national_data, selected_years)
    /\ screen' = screen \cup {"overview", "evolution_chart"}
                   \cup (IF Len(selected_indicators) = 1 THEN {}
                         ELSE {"comparison_chart"})
    /\ pc' = "statistics"
    /\ UNCHANGED <<script, disk, cache, reads, run, df, selected_indicators,
                   selected_years, national_data, stats, dept_choice, dept_data,
                   top_15, last_outcome>>

\* Lines 578-621: the detailed statistics.  With two entries or fewer app.py
\* lays them out with st.columns(len(stats)), which raises for 0 columns; the
\* notebook only loops over the entries.
Statistics ==
    /\ pc = "statistics"
    /\ UNCHANGED export_vars
    /\ stats' = IF script = "app"
                 THEN calculate_statistics(national_data, selected_indicators)
                 ELSE nb_calculate_statistics(national_data, selected_indicators)
    /\ IF script = "app" /\ DOMAIN stats' = {}
       THEN /\ screen' = screen \cup {"exception"}
            /\ pc' = "failed"
            /\ last_outcome' = "Exception"
       ELSE /\ screen' = screen \cup {"statistics"}
            /\ pc' = "departments"
            /\ UNCHANGED last_outcome
    /\ UNCHANGED <<script, disk, cache, reads, run, df, selected_indicators,
                   selected_years, national_data, overview, dept_choice,
                   dept_data, top_15>>

\* Lines 627-709: the two selectboxes, the departmental table, its chart and
\* metrics or (app.py only) the warning, then the footer.
Departments ==
    /\ pc = "departments"
    /\ UNCHANGED export_vars
    /\ \E ind \in Range(selected_indicators), y \in Range(selected_years) :
         \E t \in create_departmental_analysis(df.rows, ind, y) :
           /\ dept_choice' = <<ind, y>>
           /\ dept_data' = t
           /\ IF ~t.none /\ t.rows # << >>
              THEN /\ top_15' = head(t.rows, TopN)
                   /\ screen' = screen \cup {"dept_chart", "dept_metrics", "footer"}
              ELSE /\ top_15' = << >>
                   /\ screen' = screen \cup {"footer"}
                        \cup (IF script = "app" THEN {"dept_warning"} ELSE {})
    /\ pc' = "done"
    /\ last_outcome' = "Completed"
    /\ UNCHANGED <<script, disk, cache, reads, run, df, selected_indicators,
                   selected_years, national_data, overview, stats>>

\* The next user interaction: Streamlit runs the script again from the top.
\* Only st.cache_data's store outlives the pass.
Rerun ==
    /\ pc \in Ended
    /\ UNCHANGED export_vars
    /\ run < MaxRuns
    /\ run' = run + 1
    /\ pc' = "start"
    /\ df' = None
    /\ selected_indicators' = << >>
    /\ selected_years' = << >>
    /\ national_data' = << >>
    /\ overview' = << >>
    /\ stats' = << >>
    /\ dept_choice' = << >>
    /\ dept_data' = NoTable
    /\ top_15' = << >>
    /\ screen' = {}
    /\ UNCHANGED <<script, disk, cache, reads, last_outcome>>

----------------------------------------------------------------------------
(* The source files of the render passes *)

Vol == <<"V", "o", "l">>

Cam == <<"C", "a", "m">>

ZoneAin == <<"0", "1", "-", "A", "i", "n">>

ZoneAisne == <<"0", "2", "-", "A", "i">>

ZoneCorse == <<"2", "A", "-", "C">>

Y2016 == <<"2", "0", "1", "6">>

Y2017 == <<"2", "0", "1", "7">>

Y2018 == <<"2", "0", "1", "8">>

\* One line of the CSV file, cell by cell.
Line(year, zone, value, indicator, code) ==
    [Unite_temps |-> year, Zone_geographique |-> zone, Valeurs |-> value,
     Indicateur |-> indicator, Code_dep |-> code]

CsvFile(columns, rows) == [exists |-> TRUE, columns |-> columns, rows |-> rows]

\* The line of a Corsican department: its code makes Code_dep a text column.
CorseLine == Line(Y2016, ZoneCorse, <<"3">>, Vol, <<"2", "A">>)

\* Vol observed in two years, Cam in one.
FileTwoYears ==
    CsvFile(kept_columns,
      << Line(Y2016, ZoneAin, <<"1">>, Vol, <<"0", "1">>),
         Line(Y2017, ZoneAisne, <<"2">>, Vol, <<"0", "2">>),
         Line(Y2016, ZoneAin, <<"0">>, Cam, <<"0", "1">>),
         CorseLine >>)

\* Each indicator observed in one year only, and not the same one.
FileOneYearEach ==
    CsvFile(kept_columns,
      << Line(Y2017, ZoneAisne, <<"2">>, Vol, <<"0", "2">>),
         Line(Y2016, ZoneAin, <<"1">>, Cam, <<"0", "1">>),
         CorseLine >>)

\* No Code_dep column.
FileNoCodeDep ==
    CsvFile(required_columns,
      << Line(Y2016, ZoneAin, <<"1">>, Vol, NaN),
         Line(Y2017, ZoneAin, <<"1">>, Vol, NaN),
         Line(Y2016, ZoneCorse, <<"3">>, Vol, NaN) >>)

\* No Valeurs column.
FileNoValeurs ==
    CsvFile(kept_columns \ {"Valeurs"},
      << Line(Y2016, ZoneAin, NaN, Vol, <<"0", "1">>),
         Line(Y2016, ZoneCorse, NaN, Vol, <<"2", "A">>) >>)

\* Every department code a number: read_csv makes Code_dep an int64 column.
FileNumericCodes ==
    CsvFile(kept_columns,
      << Line(Y2016, ZoneAin, <<"1">>, Vol, <<"0", "1">>),
         Line(Y2017, ZoneAisne, <<"2">>, Vol, <<"0", "2">>) >>)

\* Only overseas and Corsican departments: nothing is left after the filter.
FileNoMetro ==
    CsvFile(kept_columns,
      << Line(Y2016, <<"9", "7", "1">>, <<"1">>, Vol, <<"9", "7", "1">>),
         CorseLine >>)

\* A year cell left empty: read_csv makes the year a float64 column.
FileEmptyYear ==
    CsvFile(kept_columns,
      << Line(Y2016, ZoneAin, <<"1">>, Vol, <<"0", "1">>),
         Line(Y2017, ZoneAin, <<"2">>, Vol, <<"0", "1">>),
         Line(NaN, ZoneAisne, <<"1">>, Vol, <<"0", "2">>),
         CorseLine >>)

SourceFiles ==
    {FileTwoYears, FileOneYearEach, FileNoCodeDep, FileNoValeurs,
     FileNumericCodes, FileNoMetro, FileEmptyYear}

\* A file system with file f at path p and nothing at the other paths.
DiskWith(p, f) == [q \in Paths |-> IF q = p THEN f ELSE NoFile]

EmptyDisk == [q \in Paths |-> NoFile]

\* Two candidate paths with a file each: the first one is the one read.
DiskWithTwo(f, g) ==
    [q \in Paths |-> IF q = possible_paths[1] THEN f
                     ELSE IF q = possible_paths[2] THEN g ELSE NoFile]

Disks ==
    {EmptyDisk} \cup {DiskWith(p, f) : p \in Paths, f \in SourceFiles}
      \cup {DiskWithTwo(FileNoValeurs, FileTwoYears),
            DiskWithTwo(FileTwoYears, FileNoValeurs)}

\* The environment puts, replaces or removes the source file.  load_data is
\* the only reader, at the start of a pass, so the change is taken between
\* two passes.
ReplaceFile ==
    /\ pc \in Ended
    /\ UNCHANGED export_vars
    /\ disk' \in Disks \ {disk}
    /\ UNCHANGED <<script, cache, reads, run, pc, df, selected_indicators,
                   selected_years, national_data, overview, stats, dept_choice,
                   dept_data, top_15, screen, last_outcome>>

Init ==
    /\ NotExporting
    /\ script \in Scripts
    /\ disk \in Disks
    /\ cache = [set |-> FALSE, result |-> NoResult]
    /\ reads = 0
    /\ run = 1
    /\ pc = "start"
    /\ df = None
    /\ Idle
    /\ screen = {}
    /\ last_outcome = "none"

Next ==
    \/ Load
    \/ Sidebar
    \/ National
    \/ Overview
    \/ Statistics
    \/ Departments
    \/ Rerun
    \/ ReplaceFile

Spec == Init /\ [][Next]_vars

----------------------------------------------------------------------------
(* The loader alone, on every file of up to MaxLoadRows lines *)

MaxLoadRows == 2

SeqsUpTo(S, n) == UNION {[1..k -> S] : k \in 0..n}

\* The department codes of the lines: below, in and above 01-95, three digits,
\* Corsica, one digit, two digits and a line feed (a quoted cell), none.
Codes ==
    { <<"0", "0">>, <<"0", "1">>, <<"9", "5">>, <<"9", "6">>, <<"9", "7", "1">>,
      <<"2", "A">>, <<"1">>, <<"1", "2", "\n">>, NaN }

\* The zone names a code is derived from when the file has no Code_dep.
ZoneNames ==
    { ZoneAin, <<"9", "5", "-", "A">>, <<"9", "6", "-", "A">>,
      <<"0", "0", "-", "A">>, <<"9", "7", "1", "-", "A">>, ZoneCorse,
      <<"A", "i", "n">>, <<"7", "5">>, NaN }

\* A line with one cell empty or not a number, its other cells valid.
DefectLines(code) ==
    { Line(NaN, ZoneAin, <<"1">>, Vol, code),
      Line(Y2016, ZoneAin, NaN, Vol, code),
      Line(Y2016, ZoneAin, <<"1", ",", "5">>, Vol, code),
      Line(Y2016, ZoneAin, <<"1">>, NaN, code) }

CodedLines ==
    {Line(Y2016, ZoneAin, <<"1">>, Vol, c) : c \in Codes}
      \cup {Line(Y2016, NaN, <<"1">>, Vol, <<"0", "1">>)}
      \cup DefectLines(<<"0", "1">>)

UncodedLines ==
    {Line(Y2016, z, <<"1">>, Vol, NaN) : z \in ZoneNames} \cup DefectLines(NaN)

\* A Corsican line (the codes are read as text), a valid line, and a line of
\* a department of 01-95 with one cell empty or not a number.
DefectFiles ==
    {CsvFile(kept_columns,
             <<CorseLine, Line(Y2017, ZoneAin, <<"2">>, Vol, <<"9", "5">>), d>>) :
        d \in DefectLines(<<"0", "1">>)}

LoadFiles ==
    {CsvFile(kept_columns, rows) : rows \in SeqsUpTo(CodedLines, MaxLoadRows)}
      \cup {CsvFile(required_columns, rows) :
              rows \in SeqsUpTo(UncodedLines, MaxLoadRows)}
      \cup {CsvFile(kept_columns \ {c}, <<[Line(Y2016, ZoneAin, <<"1">>, Vol, <<"2", "A">>)
                                            EXCEPT ![c] = NaN]>>) :
              c \in required_columns}
      \cup {CsvFile({"Code_dep"}, <<Line(NaN, NaN, NaN, NaN, <<"2", "A">>)>>)}
      \cup DefectFiles

LoadDisks == {EmptyDisk} \cup {DiskWith(p, f) : p \in Paths, f \in LoadFiles}

InitLoad ==
    /\ NotExporting
    /\ script \in Scripts
    /\ disk \in LoadDisks
    /\ cache = [set |-> FALSE, result |-> NoResult]
    /\ reads = 0
    /\ run = 1
    /\ pc = "start"
    /\ df = None
    /\ Idle
    /\ screen = {}
    /\ last_outcome = "none"

NextLoad == Load

SpecLoad == InitLoad /\ [][NextLoad]_vars

----------------------------------------------------------------------------
(* The aggregation functions alone, on every cleaned frame of up to MaxRows *)
(* rows and on two frames of more than 15 zones                            *)

MaxRows == 2

Indicators == {Cam, Vol}

\* The years a selection can hold, and the years of the enumerated rows.
Years == {2016, 2017, 2018}

RowYears == {2016, 2017}

Values == {0, 1, 2}

\* The rows a cleaned frame can hold.
CleanRows ==
    {[Unite_temps |-> y, Zone_geographique |-> z, Valeurs |-> v,
      Indicateur |-> i, Code_dep |-> SubSeq(z, 1, 2)] :
        y \in RowYears, z \in {ZoneAin, ZoneAisne}, v \in Values, i \in Indicators}

DigitChar(n) == <<"0", "1", "2", "3", "4", "5", "6", "7", "8", "9">>[n + 1]

\* n zones, 01 to n, one row each in 2016, the values rising with the zone.
WideRows(n) ==
    [k \in 1..n |->
       [Unite_temps |-> 2016,
        Zone_geographique |-> <<DigitChar(k \div 10), DigitChar(k % 10)>>,
        Valeurs |-> k,
        Indicateur |-> Vol,
        Code_dep |-> <<DigitChar(k \div 10), DigitChar(k % 10)>>]]

CleanRow(year, zone, indicator, value) ==
    [Unite_temps |-> year, Zone_geographique |-> zone, Valeurs |-> value,
     Indicateur |-> indicator, Code_dep |-> SubSeq(zone, 1, 2)]

\* The rows of the example of section 8 of the specification.
ExampleRows ==
    << CleanRow(2016, <<"0", "1">>, Vol, 10), CleanRow(2017, <<"0", "1">>, Vol, 15),
       CleanRow(2016, <<"0", "2">>, Vol, 5) >>

\* Cam in one year, in two zones of equal value met in descending name order;
\* Vol in two years, from 0.
MixedRows ==
    << CleanRow(2016, ZoneAisne, Cam, 1), CleanRow(2016, ZoneAin, Cam, 1),
       CleanRow(2016, ZoneAin, Vol, 0), CleanRow(2017, ZoneAin, Vol, 2) >>

\* Three years: Vol reaches its largest value in the last two, Cam its
\* smallest.
ThreeYearRows ==
    << CleanRow(2016, ZoneAin, Vol, 1), CleanRow(2017, ZoneAin, Vol, 2),
       CleanRow(2018, ZoneAin, Vol, 2), CleanRow(2016, ZoneAin, Cam, 2),
       CleanRow(2017, ZoneAin, Cam, 1), CleanRow(2018, ZoneAin, Cam, 1) >>

\* Two records of one zone for one indicator and year, beside another zone,
\* another year and another indicator.
SharedZoneRows ==
    << CleanRow(2016, ZoneAin, Vol, 1), CleanRow(2016, ZoneAin, Vol, 2),
       CleanRow(2016, ZoneAisne, Vol, 1), CleanRow(2017, ZoneAin, Vol, 2),
       CleanRow(2016, ZoneAin, Cam, 1) >>

\* The record sets the functions are applied to.
AggFrames ==
    SeqsUpTo(CleanRows, MaxRows)
      \cup {WideRows(TopN + 1), WideRows(TopN + 2),
            ExampleRows, MixedRows, ThreeYearRows, SharedZoneRows}

InitAgg ==
    /\ NotExporting
    /\ script = "app"
    /\ disk = EmptyDisk
    /\ \E rows \in AggFrames :
          /\ df = Frame(rows, "int64")
          /\ cache = [set |-> TRUE,
                      result |-> [value |-> df, msgs |-> {}, error |-> "none"]]
    /\ reads = 1
    /\ run = 1
    /\ pc = "input"
    /\ Idle
    /\ screen = {}
    /\ last_outcome = "none"

ApplyNational ==
    /\ pc = "input"
    /\ UNCHANGED export_vars
    /\ \E inds \in SUBSET Indicators, yrs \in SUBSET Years :
          /\ selected_indicators' = IndicatorList(inds)
          /\ selected_years' = YearList(yrs)
          /\ national_data' = get_national_statistics(df.rows, IndicatorList(inds),
                                                      YearList(yrs))
    /\ pc' = "national"
    /\ UNCHANGED <<script, disk, cache, reads, run, df, overview, stats,
                   dept_choice, dept_data, top_15, screen, last_outcome>>

\* The overview of main, which it computes once the series is not empty.
ApplyOverview ==
    /\ pc = "national"
    /\ UNCHANGED export_vars
    /\ national_data # << >>
    /\ overview' = overview_metrics(national_data, selected_years)
    /\ pc' = "overview"
    /\ UNCHANGED <<script, disk, cache, reads, run, df, selected_indicators,
                   selected_years, national_data, stats, dept_choice, dept_data,
                   top_15, screen, last_outcome>>

ApplyStatistics ==
    /\ pc = "national"
    /\ UNCHANGED export_vars
    /\ stats' = calculate_statistics(national_data, selected_indicators)
    /\ pc' = "statistics"
    /\ UNCHANGED <<script, disk, cache, reads, run, df, selected_indicators,
                   selected_years, national_data, overview, dept_choice,
                   dept_data, top_15, screen, last_outcome>>

ApplyDepartmental ==
    /\ pc = "input"
    /\ UNCHANGED export_vars
    /\ \E ind \in Indicators, y \in Years :
          /\ dept_choice' = <<ind, y>>
          /\ dept_data' \in create_departmental_analysis(df.rows, ind, y)
    /\ top_15' = head(dept_data'.rows, TopN)
    /\ pc' = "departments"
    /\ UNCHANGED <<script, disk, cache, reads, run, df, selected_indicators,
                   selected_years, national_data, overview, stats, screen,
                   last_outcome>>

NextAgg == ApplyNational \/ ApplyOverview \/ ApplyStatistics \/ ApplyDepartmental

SpecAgg == InitAgg /\ [][NextAgg]_vars

----------------------------------------------------------------------------
(* The claims *)

\* A two-character all-digit code from "01" to "95".
IsMetroCode(code) ==
    /\ Len(code) = 2
    /\ AllDigits(code)
    /\ DecimalValue(code) \in 1..95

RECURSIVE SumAt(_, _)
SumAt(rows, I) ==
    IF I = {} THEN 0
    ELSE LET k == CHOOSE k \in I : TRUE
         IN  rows[k].Valeurs + SumAt(rows, I \ {k})

\* The positions of the records of df with this indicator and this year.
Matching(ind, y) ==
    {k \in 1..Len(df.rows) :
        df.rows[k].Indicateur = ind /\ df.rows[k].Unite_temps = y}

Selected(ind, y) ==
    ind \in Range(selected_indicators) /\ y \in Range(selected_years)

\* The positions of the rows of the national series with this key.
NationalAt(ind, y) ==
    {k \in 1..Len(national_data) :
        national_data[k].Indicateur = ind /\ national_data[k].Unite_temps = y}

(* C2: get_national_statistics returns exactly one row for each (year,       *)
(* indicator) pair that has a record with the indicator and the year both    *)
(* selected, its value the sum of exactly those records; a pair without a    *)
(* matching record has no row, and no pair has two rows.                     *)
C2_OneRowPerObservedPair ==
    (pc = "national") =>
        /\ \A k \in 1..Len(national_data) :
              /\ national_data[k].Indicateur \in Indicators
              /\ national_data[k].Unite_temps \in Years
        /\ \A ind \in Indicators, y \in Years :
              IF Selected(ind, y) /\ Matching(ind, y) # {}
              THEN /\ Cardinality(NationalAt(ind, y)) = 1
                   /\ \A k \in NationalAt(ind, y) :
                         national_data[k].Valeurs = SumAt(df.rows, Matching(ind, y))
              ELSE NationalAt(ind, y) = {}

\* A row that sums two records, beside a selected pair that has no record.
C2_Witness ==
    /\ pc = "national"
    /\ \E ind \in Indicators, y \in Years :
          /\ Selected(ind, y)
          /\ Cardinality(Matching(ind, y)) >= 2
          /\ SumAt(df.rows, Matching(ind, y)) > 0
    /\ \E ind \in Indicators, y \in Years :
          Selected(ind, y) /\ Matching(ind, y) = {}

\* The positions of the filtered records of one year.
FilteredOfYear(y) ==
    {k \in 1..Len(df.rows) :
        /\ df.rows[k].Unite_temps = y
        /\ df.rows[k].Indicateur \in Range(selected_indicators)}

(* C3: for every selected year, the national-series values of that year,     *)
(* summed over the indicators (the per-year totals of main), equal the sum   *)
(* of the values of the filtered records of that year.                       *)
C3_YearTotalsAgree ==
    (pc = "overview") =>
        \A y \in Range(selected_years) :
            LET direct  == SumAt(df.rows, FilteredOfYear(y))
                ofYear  == {k \in 1..Len(national_data) :
                               national_data[k].Unite_temps = y}
                entries == {k \in 1..Len(overview.year_totals) :
                               overview.year_totals[k].Unite_temps = y}
            IN  /\ SumAt(national_data, ofYear) = direct
                /\ IF FilteredOfYear(y) = {} THEN entries = {}
                   ELSE /\ Cardinality(entries) = 1
                        /\ \A k \in entries :
                              overview.year_totals[k].Valeurs = direct

\* A year whose total adds the rows of two indicators.
C3_Witness ==
    /\ pc = "overview"
    /\ \E y \in Range(selected_years) :
          /\ Cardinality({k \in 1..Len(national_data) :
                            /\ national_data[k].Unite_temps = y
                            /\ national_data[k].Valeurs > 0}) >= 2
          /\ \E k \in 1..Len(overview.year_totals) :
                /\ overview.year_totals[k].Unite_temps = y
                /\ overview.year_totals[k].Valeurs >= 2

\* The years in which the national series has a row for the indicator.
ObservedYears(ind) ==
    {national_data[k].Unite_temps :
        k \in {j \in 1..Len(national_data) : national_data[j].Indicateur = ind}}

(* C4: calculate_statistics has an entry for an indicator if and only if the *)
(* indicator is selected and the national series has rows for it in at least *)
(* two distinct years; with no or one observed year it is left out, and no   *)
(* error is raised.                                                          *)
C4_EntryIffTwoYears ==
    (pc = "statistics") =>
        \A ind \in Indicators :
            ind \in DOMAIN stats <=>
                /\ ind \in Range(selected_indicators)
                /\ Cardinality(ObservedYears(ind)) >= 2

\* One selected indicator has an entry, another, seen in one year, has none.
C4_Witness ==
    /\ pc = "statistics"
    /\ \E ind \in Range(selected_indicators) : ind \in DOMAIN stats
    /\ \E ind \in Range(selected_indicators) :
          Cardinality(ObservedYears(ind)) = 1 /\ ind \notin DOMAIN stats

\* The value of the national series for the indicator in its earliest
\* (latest) observed year.
ValueAtFirstYear(ind) ==
    LET k == CHOOSE k \in 1..Len(national_data) :
                /\ national_data[k].Indicateur = ind
                /\ \A y \in ObservedYears(ind) : national_data[k].Unite_temps <= y
    IN  national_data[k].Valeurs

ValueAtLastYear(ind) ==
    LET k == CHOOSE k \in 1..Len(national_data) :
                /\ national_data[k].Indicateur = ind
                /\ \A y \in ObservedYears(ind) : national_data[k].Unite_temps >= y
    IN  national_data[k].Valeurs

(* C5: for every indicator of the statistics map, evolution_abs is last -    *)
(* first; evolution_pct is exactly 0 when the value of the earliest observed *)
(* year is 0, whatever the last value, and (last - first) / first * 100      *)
(* otherwise.                                                                *)
C5_EvolutionPct ==
    (pc = "statistics") =>
        \A ind \in DOMAIN stats :
            LET first == ValueAtFirstYear(ind)
                last  == ValueAtLastYear(ind)
                pct   == stats[ind].evolution_pct
            IN  /\ stats[ind].evolution_abs = last - first
                /\ IF first = 0 THEN pct.num = 0 /\ pct.den = 1
                   ELSE /\ pct.den # 0
                        /\ pct.num * first = (last - first) * 100 * pct.den

\* An indicator that starts at 0 and ends above it.
C5_Witness ==
    /\ pc = "statistics"
    /\ \E ind \in DOMAIN stats :
          ValueAtFirstYear(ind) = 0 /\ ValueAtLastYear(ind) > 0

\* Where a zone is first met in the record set.
FirstSeen(zone) ==
    CHOOSE k \in 1..Len(df.rows) :
        /\ df.rows[k].Zone_geographique = zone
        /\ \A j \in 1..(k - 1) : df.rows[j].Zone_geographique # zone

(* C6, as claimed: the table of create_departmental_analysis is in           *)
(* descending order of value, and zones of equal value are in the order in   *)
(* which the record set first meets them.                                    *)
C6_StableDescending ==
    (pc = "departments" /\ ~dept_data.none) =>
        \A a \in 1..Len(dept_data.rows), b \in 1..Len(dept_data.rows) :
            a < b =>
                /\ dept_data.rows[a].Valeurs >= dept_data.rows[b].Valeurs
                /\ dept_data.rows[a].Valeurs = dept_data.rows[b].Valeurs =>
                      FirstSeen(dept_data.rows[a].Zone_geographique)
                        < FirstSeen(dept_data.rows[b].Zone_geographique)

(* C6, as amended: the table of create_departmental_analysis is in           *)
(* descending order of value: every entry's value is at least the value of   *)
(* the entry after it.                                                       *)
C6_Descending ==
    (pc = "departments" /\ ~dept_data.none) =>
        \A a \in 1..(Len(dept_data.rows) - 1) :
            dept_data.rows[a].Valeurs >= dept_data.rows[a + 1].Valeurs

\* A table whose order of value is the reverse of its order of zone name.
C6_Witness ==
    /\ pc = "departments"
    /\ ~dept_data.none
    /\ \E a \in 1..(Len(dept_data.rows) - 1) :
          /\ dept_data.rows[a].Valeurs > dept_data.rows[a + 1].Valeurs
          /\ StrLess(dept_data.rows[a + 1].Zone_geographique,
                     dept_data.rows[a].Zone_geographique)

\* The zones of the record set.
ZonesOf(rows) == {rows[k].Zone_geographique : k \in 1..Len(rows)}

(* C7: when a record matches the indicator and the year,                     *)
(* create_departmental_analysis returns exactly one entry for every zone     *)
(* that has a matching record, its value the sum of the zone's matching      *)
(* records, and none for the other zones; the table is not cut to a top N:   *)
(* the 15 rows are taken by the caller's chart only.                         *)
C7_OneEntryPerZone ==
    (pc = "departments" /\ Matching(dept_choice[1], dept_choice[2]) # {}) =>
        LET M == Matching(dept_choice[1], dept_choice[2])
            OfZone(z) == {k \in M : df.rows[k].Zone_geographique = z}
            EntriesOf(z) == {j \in 1..Len(dept_data.rows) :
                                dept_data.rows[j].Zone_geographique = z}
        IN  /\ ~dept_data.none
            /\ \A z \in ZonesOf(df.rows) :
                  IF OfZone(z) = {} THEN EntriesOf(z) = {}
                  ELSE /\ Cardinality(EntriesOf(z)) = 1
                       /\ \A j \in EntriesOf(z) :
                             dept_data.rows[j].Valeurs = SumAt(df.rows, OfZone(z))
            /\ Len(dept_data.rows)
                 = Cardinality({z \in ZonesOf(df.rows) : OfZone(z) # {}})
            /\ top_15 = SubSeq(dept_data.rows, 1,
                               IF Len(dept_data.rows) < TopN
                               THEN Len(dept_data.rows) ELSE TopN)

\* More than 15 zones in the table, 15 of them in the chart.
C7_Witness ==
    /\ pc = "departments"
    /\ Len(dept_data.rows) > TopN
    /\ Len(top_15) = TopN

(* C8: when no record has both the indicator and the year chosen for the     *)
(* departmental section, create_departmental_analysis returns None and the   *)
(* pass ends normally: no chart, no metrics and no exception, the footer is  *)
(* shown, and app.py shows its "no data" warning.                            *)
C8_NoMatchIsNoData ==
    (pc = "done" /\ Matching(dept_choice[1], dept_choice[2]) = {}) =>
        /\ dept_data.none
        /\ top_15 = << >>
        /\ screen \cap {"dept_chart", "dept_metrics", "exception"} = {}
        /\ "footer" \in screen
        /\ script = "app" => "dept_warning" \in screen

\* A finished pass of app.py whose departmental choice no record matches,
\* while other records of the selection exist.
C8_Witness ==
    /\ pc = "done"
    /\ script = "app"
    /\ Matching(dept_choice[1], dept_choice[2]) = {}
    /\ national_data # << >>
    /\ "dept_warning" \in screen

\* No candidate path of the script holds a file, or the file that is read
\* lacks one of the four required columns.
SourceUnusable ==
    IF script = "app"
    THEN \/ \A i \in 1..Len(possible_paths) : ~disk[possible_paths[i]].exists
         \/ \E i \in 1..Len(possible_paths) :
               /\ disk[possible_paths[i]].exists
               /\ \A j \in 1..(i - 1) : ~disk[possible_paths[j]].exists
               /\ required_columns \ disk[possible_paths[i]].columns # {}
    ELSE \/ ~disk[nb_path].exists
         \/ required_columns \ disk[nb_path].columns # {}

\* What a pass shows of the data.
DataOutputs ==
    {"sidebar", "overview", "evolution_chart", "comparison_chart", "statistics",
     "dept_chart", "dept_metrics", "dept_warning", "footer"}

(* C9: when load_data runs on a source with no readable candidate path or    *)
(* with a required column missing, it shows an error and returns None, and   *)
(* the pass stops there: from then on, until the next pass starts, nothing   *)
(* is selected, aggregated or shown of the data.                             *)
C9_NoPartialDataset ==
    [][/\ (pc = "start" /\ ~cache.set /\ SourceUnusable /\ pc' # pc) =>
             /\ df'.none
             /\ df'.rows = << >>
             /\ pc' = "stopped"
             /\ last_outcome' \in {"DataNotFound", "SchemaError"}
             /\ screen' \cap {"error_not_found", "error_missing_cols",
                              "error_exception"} # {}
             /\ screen' \cap DataOutputs = {}
             /\ Idle'
       /\ (pc = "stopped" /\ df.none) =>
             /\ pc' \in {"stopped", "start"}
             /\ Idle'
             /\ screen' \cap DataOutputs = {}]_vars

\* A pass stopped by a file that was read and lacks a required column.
C9_Witness ==
    /\ pc = "stopped"
    /\ df.none
    /\ reads = 1
    /\ last_outcome = "SchemaError"
    /\ "error_missing_cols" \in screen

(* C10: when the pass before ended in DataNotFound, SchemaError or           *)
(* EmptySelection and the source file is now readable and valid, the load of *)
(* the next pass obtains the dataset.                                        *)
C10_FreshAttempt ==
    [][(/\ pc = "start"
        /\ pc' # pc
        /\ last_outcome \in {"DataNotFound", "SchemaError", "EmptySelection"}
        /\ ~load_body(disk, script).value.none)
          => ~df'.none]_vars

(* C11: within one process the body of load_data runs at most once; once a   *)
(* pass has loaded a record set, the store keeps it, no later pass reads the *)
(* file again, and the load of every later pass returns that same record     *)
(* set, whatever the file has become.                                        *)
C11_LoadedOnce ==
    [][/\ reads' <= 1
       /\ (cache.set /\ ~cache.result.value.none) =>
             /\ cache' = cache
             /\ reads' = reads
             /\ (pc = "start" /\ pc' # pc) => df' = cache.result.value]_vars

\* A later pass holding the record set of the first pass although the file
\* was replaced by one that loads differently.
C11_Witness ==
    /\ run >= 1
    /\ pc = "sidebar"
    /\ reads = 1
    /\ ~df.none
    /\ df = cache.result.value
    /\ load_body(disk, script).value # df

(* C12: once loaded, the record set is never changed: within a pass every    *)
(* step leaves df as load_data returned it, the stored record set is the     *)
(* same in every pass, and the national series stays as                      *)
(* get_national_statistics built it through the statistics and the           *)
(* departmental analysis.                                                    *)
C12_RecordSetUnchanged ==
    [][/\ (~df.none /\ pc' # "start") => df' = df
       /\ (cache.set /\ ~cache.result.value.none) =>
             cache'.result.value = cache.result.value
       /\ (pc \in {"overview", "statistics", "departments"} /\ pc' # "start") =>
             national_data' = national_data]_vars

\* A later pass that ran to its end: the record set is the stored one, and
\* the derived tables are other, smaller tables.
C12_Witness ==
    /\ run >= 1
    /\ pc = "done"
    /\ ~df.none
    /\ df = cache.result.value
    /\ Len(national_data) < Len(df.rows)
    /\ ~dept_data.none
    /\ Len(dept_data.rows) < Len(df.rows)

\* The values of the national series for the indicator, and the years in
\* which it has value v.
ObservedValues(ind) ==
    {national_data[k].Valeurs :
        k \in {j \in 1..Len(national_data) : national_data[j].Indicateur = ind}}

YearsWithValue(ind, v) ==
    {national_data[k].Unite_temps :
        k \in {j \in 1..Len(national_data) :
                 national_data[j].Indicateur = ind /\ national_data[j].Valeurs = v}}

(* C13: for every indicator of the statistics map, first_year and last_year  *)
(* are the smallest and the largest observed year and first_value and        *)
(* last_value the values of those years; max_value and min_value are the     *)
(* largest and the smallest value, and max_year and min_year the earliest    *)
(* year that has that value.                                                 *)
C13_EndpointsAndExtremes ==
    (pc = "statistics") =>
        \A ind \in DOMAIN stats :
            LET st == stats[ind] IN
            /\ st.first_year \in ObservedYears(ind)
            /\ st.last_year \in ObservedYears(ind)
            /\ \A y \in ObservedYears(ind) : st.first_year <= y /\ y <= st.last_year
            /\ st.first_value = ValueAtFirstYear(ind)
            /\ st.last_value = ValueAtLastYear(ind)
            /\ st.max_value \in ObservedValues(ind)
            /\ st.min_value \in ObservedValues(ind)
            /\ \A v \in ObservedValues(ind) : st.min_value <= v /\ v <= st.max_value
            /\ st.max_year \in YearsWithValue(ind, st.max_value)
            /\ st.min_year \in YearsWithValue(ind, st.min_value)
            /\ \A y \in YearsWithValue(ind, st.max_value) : st.max_year <= y
            /\ \A y \in YearsWithValue(ind, st.min_value) : st.min_year <= y

\* The largest value reached in two years, neither of them the first, beside
\* an indicator whose smallest value is reached in two years.
C13_Witness ==
    /\ pc = "statistics"
    /\ \E ind \in DOMAIN stats :
          /\ Cardinality(YearsWithValue(ind, stats[ind].max_value)) >= 2
          /\ stats[ind].max_year # stats[ind].first_year
          /\ stats[ind].max_year # stats[ind].last_year
    /\ \E ind \in DOMAIN stats :
          /\ Cardinality(YearsWithValue(ind, stats[ind].min_value)) >= 2
          /\ stats[ind].min_year # stats[ind].first_year

\* The file that the load of the script reads.
SourceFile ==
    IF script = "app" THEN disk[possible_paths[FirstReadable(disk, 1)]]
    ELSE disk[nb_path]

\* The department code of a line of the file: its Code_dep cell, or, when the
\* file has no such column, the leading digits of its zone name.
SourceCode(r) ==
    IF "Code_dep" \in SourceFile.columns THEN r.Code_dep
    ELSE IF r.Zone_geographique = NaN THEN NaN
    ELSE str_extract(r.Zone_geographique)

\* No field of the line is missing, and its value reads as a number.
Complete(r) ==
    /\ r.Unite_temps # NaN
    /\ r.Zone_geographique # NaN
    /\ r.Valeurs # NaN
    /\ r.Indicateur # NaN
    /\ SourceCode(r) # NaN

Coercible(r) == IsIntLiteral(r.Valeurs)

\* Row k of the loaded set is the line r of the file.
LoadedFrom(k, r) ==
    /\ df.rows[k].Zone_geographique = r.Zone_geographique
    /\ df.rows[k].Indicateur = r.Indicateur
    /\ df.rows[k].Code_dep = SourceCode(r)
    /\ df.rows[k].Valeurs = ParseInt(r.Valeurs)
    /\ df.rows[k].Unite_temps =
         (IF df.year_dtype = "object" THEN r.Unite_temps ELSE ParseInt(r.Unite_temps))

(* C14: when load_data returns a dataset, every row of it is a line of the   *)
(* file that has none of its five fields missing and a value that reads as a *)
(* number, and every such line whose department code is a code from 01 to 95 *)
(* is in the dataset, as many times as it is in the file.                    *)
C14_CompleteNumericRows ==
    (pc = "sidebar") =>
        LET src == SourceFile.rows
            Usable == {j \in 1..Len(src) : Complete(src[j]) /\ Coercible(src[j])}
            Keepable == {j \in Usable : IsMetroCode(SourceCode(src[j]))}
        IN  /\ Len(df.rows) <= Cardinality(Usable)
            /\ \A k \in 1..Len(df.rows) : \E j \in Usable : LoadedFrom(k, src[j])
            /\ \A j \in Keepable :
                  Cardinality({k \in 1..Len(df.rows) : LoadedFrom(k, src[j])})
                    >= Cardinality({i \in Keepable : src[i] = src[j]})

\* A dataset of one row, loaded from a file with a Code_dep column that also
\* has a line of a department of 01-95 with a missing field or a value that
\* is no number.
C14_Witness ==
    /\ pc = "sidebar"
    /\ "Code_dep" \in SourceFile.columns
    /\ Len(df.rows) = 1
    /\ \E j \in 1..Len(SourceFile.rows) :
          /\ ~(Complete(SourceFile.rows[j]) /\ Coercible(SourceFile.rows[j]))
          /\ IsMetroCode(SourceFile.rows[j].Code_dep)
    /\ \E j \in 1..Len(SourceFile.rows) : LoadedFrom(1, SourceFile.rows[j])

\* The script finds a file to read.
HasSource ==
    IF script = "app" THEN FirstReadable(disk, 1) # 0 ELSE disk[nb_path].exists

(* C15: given a file that has the four required columns and no Code_dep      *)
(* column, load_data (of app.py and of the notebook) returns a dataset: the  *)
(* usable lines whose code, derived from the leading digits of the zone      *)
(* name, is a code from 01 to 95.                                            *)
C15_CodeDepOptional ==
    (/\ pc \in {"sidebar", "stopped"}
     /\ HasSource
     /\ required_columns \subseteq SourceFile.columns
     /\ "Code_dep" \notin SourceFile.columns) =>
        LET src == SourceFile.rows
            Usable == {j \in 1..Len(src) : Complete(src[j]) /\ Coercible(src[j])}
        IN  /\ ~df.none
            /\ \A k \in 1..Len(df.rows) :
                  /\ IsMetroCode(df.rows[k].Code_dep)
                  /\ \E j \in Usable : LoadedFrom(k, src[j])
            /\ \A j \in Usable :
                  IsMetroCode(str_extract(src[j].Zone_geographique)) =>
                      \E k \in 1..Len(df.rows) : LoadedFrom(k, src[j])

(* C16, as claimed: there is a national series, with its largest or its      *)
(* smallest value reached in more than one year, for which calculate_        *)
(* statistics of app.py and of the notebook report a different max_year or   *)
(* min_year.  The series are those of every record set and selection of the *)
(* aggregation, the record set at hand included.                             *)
C16_TieBreakDiverges ==
    \E rows \in AggFrames \cup {df.rows}, inds \in SUBSET Indicators,
       yrs \in SUBSET Years :
        LET national == get_national_statistics(rows, IndicatorList(inds),
                                                YearList(yrs))
            app == calculate_statistics(national, IndicatorList(inds))
            nb  == nb_calculate_statistics(national, IndicatorList(inds))
        IN  \E ind \in DOMAIN app :
               \/ app[ind].max_year # nb[ind].max_year
               \/ app[ind].min_year # nb[ind].min_year

(* C16, as amended: for every national series the two calculate_statistics   *)
(* report the same max_year and the same min_year (and the same map          *)
(* altogether), also when the largest or the smallest value is reached in    *)
(* more than one year.                                                       *)
C16_SameTieBreak ==
    (pc = "statistics") =>
        LET nb == nb_calculate_statistics(national_data, selected_indicators)
        IN  /\ DOMAIN nb = DOMAIN stats
            /\ \A ind \in DOMAIN stats :
                  /\ stats[ind].max_year = nb[ind].max_year
                  /\ stats[ind].min_year = nb[ind].min_year
                  /\ stats[ind] = nb[ind]

\* Statistics of app.py on a series with a tie for the largest value of one
\* indicator and a tie for the smallest value of another.
C16_Witness ==
    /\ pc = "statistics"
    /\ script = "app"
    /\ \E ind \in DOMAIN stats, other \in DOMAIN stats :
          /\ ind # other
          /\ Cardinality(YearsWithValue(ind, stats[ind].max_value)) >= 2
          /\ Cardinality(YearsWithValue(other, stats[other].min_value)) >= 2

\* What a pass shows once it has a national series.
Sections ==
    {"overview", "evolution_chart", "comparison_chart", "statistics",
     "dept_chart", "dept_metrics", "dept_warning", "footer"}

(* C17: in a pass that has its dataset, when the selection of indicators is  *)
(* empty, or the national series of the selection has no row, the pass shows *)
(* the warning and stops: no statistics, no chart and no departmental table  *)
(* are computed or shown, and no exception ends the pass.                    *)
C17_EmptySelectionStops ==
    (/\ pc \notin {"start", "sidebar", "aggregate"}
     /\ ~df.none
     /\ \/ selected_indicators = << >>
        \/ selected_years # << >> /\ national_data = << >>) =>
        /\ pc = "stopped"
        /\ screen \cap {"warning_select", "warning_no_data"} # {}
        /\ "exception" \notin screen
        /\ screen \cap Sections = {}
        /\ stats = << >>
        /\ dept_data = NoTable

(* C18: in app.py, a pass whose national series is not empty and in which    *)
(* every selected indicator has one observed year, once past the detailed    *)
(* statistics, has an empty statistics map, has shown the section without an *)
(* exception, and goes on to the departmental analysis.                      *)
C18_EmptyStatsCompletes ==
    (/\ script = "app"
     /\ pc \in {"departments", "done", "failed"}
     /\ national_data # << >>
     /\ \A ind \in Range(selected_indicators) :
           Cardinality(ObservedYears(ind)) <= 1) =>
        /\ pc \in {"departments", "done"}
        /\ DOMAIN stats = {}
        /\ "statistics" \in screen
        /\ "exception" \notin screen

(* C19: for every record set, and every selection that holds the indicator   *)
(* and the year given to create_departmental_analysis, the values of the     *)
(* departmental table add up to the value of the (year, indicator) row of    *)
(* get_national_statistics, and the table is None exactly when the national  *)
(* series has no such row.                                                   *)
C19_ZonesAddUpToNational ==
    (pc = "departments") =>
        \A inds \in SUBSET Indicators, yrs \in SUBSET Years :
            (dept_choice[1] \in inds /\ dept_choice[2] \in yrs) =>
                LET national == get_national_statistics(df.rows, IndicatorList(inds),
                                                        YearList(yrs))
                    at == {k \in 1..Len(national) :
                              /\ national[k].Indicateur = dept_choice[1]
                              /\ national[k].Unite_temps = dept_choice[2]}
                IN  /\ dept_data.none <=> at = {}
                    /\ ~dept_data.none =>
                          /\ Cardinality(at) = 1
                          /\ \A k \in at :
                                national[k].Valeurs
                                  = SumAt(dept_data.rows, 1..Len(dept_data.rows))

\* A table of two zones or more, one of them with two records, from a record
\* set that has other records too.
C19_Witness ==
    /\ pc = "departments"
    /\ ~dept_data.none
    /\ Len(dept_data.rows) >= 2
    /\ Cardinality(Matching(dept_choice[1], dept_choice[2])) > Len(dept_data.rows)
    /\ Cardinality(Matching(dept_choice[1], dept_choice[2])) < Len(df.rows)

\* The two ends of the selected years.
FirstSelectedYear ==
    CHOOSE y \in Range(selected_years) : \A z \in Range(selected_years) : y <= z

LastSelectedYear ==
    CHOOSE y \in Range(selected_years) : \A z \in Range(selected_years) : z <= y

(* C20: the overview of main compares the two ends of the selected years:    *)
(* total_first and total_current are the sums of the national series (and of *)
(* the filtered records) at the smallest and at the largest selected year, 0 *)
(* for a year without data, and the evolution percentage is exactly 0 when   *)
(* total_first is 0, (total_current - total_first) / total_first * 100       *)
(* otherwise.                                                                *)
C20_OverviewEndpoints ==
    (pc = "overview") =>
        LET first == SumAt(national_data,
                           {k \in 1..Len(national_data) :
                               national_data[k].Unite_temps = FirstSelectedYear})
            current == SumAt(national_data,
                             {k \in 1..Len(national_data) :
                                 national_data[k].Unite_temps = LastSelectedYear})
            pct == overview.evolution_pct
        IN  /\ overview.total_first = first
            /\ overview.total_current = current
            /\ first = SumAt(df.rows, FilteredOfYear(FirstSelectedYear))
            /\ current = SumAt(df.rows, FilteredOfYear(LastSelectedYear))
            /\ IF first = 0 THEN pct.num = 0 /\ pct.den = 1
               ELSE /\ pct.den # 0
                    /\ pct.num * first = (current - first) * 100 * pct.den

\* The first selected year has no data, later selected years have: the
\* totals are 0 and more than 0, and the percentage is 0.
C20_Witness ==
    /\ pc = "overview"
    /\ FilteredOfYear(FirstSelectedYear) = {}
    /\ overview.total_first = 0
    /\ overview.total_current > 0
    /\ overview.evolution_pct.num = 0

----------------------------------------------------------------------------
(* export_structure, of src/notebooks/python export_structure.py *)

\* The characters of the drawing are not ASCII and are named by code point.
BoxVertical == "U+2502"
BoxTee == "U+251C"
BoxCorner == "U+2514"
BoxDash == "U+2500"

\* Line 16: the two values of connector.
tee_connector == <<BoxTee, BoxDash, BoxDash, " ">>

corner_connector == <<BoxCorner, BoxDash, BoxDash, " ">>

\* Line 19: the two values of extension.
bar_extension == <<BoxVertical, " ", " ", " ">>

blank_extension == <<" ", " ", " ", " ">>

\* Line 4: the default arguments, which __main__ (line 25) leaves in place.
default_max_depth == 5

ignore ==
    << <<"_", "_", "p", "y", "c", "a", "c", "h", "e", "_", "_">>,
       <<".", "g", "i", "t">>,
       <<"v", "e", "n", "v">> >>

\* Line 7: the text written before root.name.
header ==
    <<"#", " ", "S", "t", "r", "u", "c", "t", "u", "r", "e", " ", "d", "u", " ", "p", "r", "o", "j", "e", "t", ":", " ">>

\* Python's `ign in name`.
Contains(name, ign) ==
    \E k \in 0..(Len(name) - Len(ign)) : SubSeq(name, k + 1, k + Len(ign)) = ign

startswith(name, p) == Len(name) >= Len(p) /\ SubSeq(name, 1, Len(p)) = p

\* Line 14: the test that skips an item.
ignored(name) ==
    \/ \E j \in 1..Len(ignore) : Contains(name, ignore[j])
    \/ startswith(name, <<".">>)

\* What a Path answers: its name, is_dir(), is_file() and iterdir().  A
\* broken symbolic link is neither a directory nor a file.
File(name) == [name |-> name, is_dir |-> FALSE, is_file |-> TRUE, entries |-> {}]

Dir(name, entries) ==
    [name |-> name, is_dir |-> TRUE, is_file |-> FALSE, entries |-> entries]

Link(name) == [name |-> name, is_dir |-> FALSE, is_file |-> FALSE, entries |-> {}]

iterdir(path) == path.entries

\* Line 12: the order of the key (p.is_file(), p.name); False sorts before
\* True, names by code point.  The names of one directory are distinct.
KeyBefore(a, b) ==
    \/ ~a.is_file /\ b.is_file
    \/ a.is_file = b.is_file /\ StrLess(a.name, b.name)

RECURSIVE sorted(_)
sorted(S) ==
    IF S = {} THEN << >>
    ELSE LET first == CHOOSE a \in S : \A b \in S \ {a} : KeyBefore(a, b)
         IN  <<first>> \o sorted(S \ {first})

\* A call of walk(path, prefix, depth) that has not run its first line yet.
Call(path, prefix, depth) ==
    [path |-> path, prefix |-> prefix, depth |-> depth, entered |-> FALSE,
     items |-> << >>, i |-> 0]

\* The innermost active call of walk, and the stack once it has returned.
Top == calls[Len(calls)]

Popped == SubSeq(calls, 1, Len(calls) - 1)

\* The item of the current iteration of line 13.
Item == Top.items[Top.i + 1]

\* Lines 5-7 and 22: open the file, write the header, call walk(root).
Open ==
    /\ export_pc = "start"
    /\ output_file' = << header \o tree.name \o <<"\n", "\n">> >>
    /\ calls' = << Call(tree, << >>, 0) >>
    /\ export_pc' = "walk"
    /\ UNCHANGED <<tree, max_depth>>
    /\ UNCHANGED dashboard_vars

\* Lines 10-11: a call deeper than max_depth returns at once.
TooDeep ==
    /\ export_pc = "walk"
    /\ calls # << >>
    /\ ~Top.entered
    /\ Top.depth > max_depth
    /\ calls' = Popped
    /\ UNCHANGED <<tree, max_depth, export_pc, output_file>>
    /\ UNCHANGED dashboard_vars

\* Line 12: the sorted items of the directory.
ListDir ==
    /\ export_pc = "walk"
    /\ calls # << >>
    /\ ~Top.entered
    /\ Top.depth <= max_depth
    /\ calls' = [calls EXCEPT ![Len(calls)] =
                    [@ EXCEPT !.entered = TRUE,
                              !.items = sorted(iterdir(Top.path))]]
    /\ UNCHANGED <<tree, max_depth, export_pc, output_file>>
    /\ UNCHANGED dashboard_vars

\* Lines 14-15: an ignored item is passed over.
Skip ==
    /\ export_pc = "walk"
    /\ calls # << >>
    /\ Top.entered
    /\ Top.i < Len(Top.items)
    /\ ignored(Item.name)
    /\ calls' = [calls EXCEPT ![Len(calls)].i = @ + 1]
    /\ UNCHANGED <<tree, max_depth, export_pc, output_file>>
    /\ UNCHANGED dashboard_vars

\* Lines 16-20: the line of an item, and the call of walk on a directory.
\* Nothing follows that call in the loop body, so the iteration is counted
\* as done when the call is made.
Write ==
    /\ export_pc = "walk"
    /\ calls # << >>
    /\ Top.entered
    /\ Top.i < Len(Top.items)
    /\ ~ignored(Item.name)
    /\ LET top == Top
           item == Item
           connector == IF top.i < Len(top.items) - 1
                        THEN tee_connector ELSE corner_connector
           extension == IF top.i < Len(top.items) - 1
                        THEN bar_extension ELSE blank_extension
           advanced == [calls EXCEPT ![Len(calls)].i = @ + 1]
       IN  /\ output_file' =
                Append(output_file,
                       top.prefix \o connector \o item.name \o <<"\n">>)
           /\ calls' = IF item.is_dir
                       THEN Append(advanced,
                                   Call(item, top.prefix \o extension,
                                        top.depth + 1))
                       ELSE advanced
    /\ UNCHANGED <<tree, max_depth, export_pc>>
    /\ UNCHANGED dashboard_vars

\* Line 13: the loop is exhausted and the call returns.
Return ==
    /\ export_pc = "walk"
    /\ calls # << >>
    /\ Top.entered
    /\ Top.i = Len(Top.items)
    /\ calls' = Popped
    /\ UNCHANGED <<tree, max_depth, export_pc, output_file>>
    /\ UNCHANGED dashboard_vars

\* Line 6: walk(root) has returned and the with block closes the file.
Close ==
    /\ export_pc = "walk"
    /\ calls = << >>
    /\ export_pc' = "closed"
    /\ UNCHANGED <<tree, max_depth, calls, output_file>>
    /\ UNCHANGED dashboard_vars

\* The directories export_structure is run on.
AppPy == File(<<"a", "p", "p", ".", "p", "y">>)

MainFile == File(<<"m", "a", "i", "n">>)

MyVenv == File(<<"m", "y", "v", "e", "n", "v">>)

DotEnv == File(<<".", "e", "n", "v">>)

Lien == Link(<<"l", "i", "e", "n">>)

PyCache == Dir(<<"_", "_", "p", "y", "c", "a", "c", "h", "e", "_", "_">>, {MainFile})

DotGit == Dir(<<".", "g", "i", "t">>, {MainFile})

Venv == Dir(<<"v", "e", "n", "v">>, {AppPy})

AppDir == Dir(<<"a", "p", "p">>, {AppPy, PyCache})

RootEntries == {AppDir, Venv, DotGit, AppPy, MyVenv, DotEnv, Lien}

MaxNesting == 7

\* n directories "a" one inside the other, a file beside each.
RECURSIVE Nested(_)
Nested(n) ==
    IF n = 0 THEN {MainFile}
    ELSE {Dir(<<"a">>, Nested(n - 1)), MainFile}

\* Path('.').name is the empty string.
Trees ==
    {Dir(<< >>, es) : es \in SUBSET RootEntries}
        \cup {Dir(<<"a", "p", "p">>, Nested(n)) : n \in 0..MaxNesting}

MaxDepths == {-1, 0, 1, default_max_depth}

InitExport ==
    /\ script = "export_structure"
    /\ disk = EmptyDisk
    /\ cache = [set |-> FALSE, result |-> NoResult]
    /\ reads = 0
    /\ run = 1
    /\ pc = "absent"
    /\ df = None
    /\ Idle
    /\ screen = {}
    /\ last_outcome = "none"
    /\ tree \in Trees
    /\ max_depth \in MaxDepths
    /\ export_pc = "start"
    /\ calls = << >>
    /\ output_file = << >>

NextExport == Open \/ TooDeep \/ ListDir \/ Skip \/ Write \/ Return \/ Close

SpecExport == InitExport /\ [][NextExport]_vars

\* The interpreter runs the call to its end: no step waits on anything.
SpecExportLive == SpecExport /\ WF_vars(NextExport)

----------------------------------------------------------------------------
(* The listing read back from the strings written to the file.  No name of  *)
(* Trees holds a drawing character, so the first one of a written line is   *)
(* the head of its connector and what precedes it is the prefix, four       *)
(* characters for each level below the root.                                *)

\* The written lines, the header aside.
Entries == 2..Len(output_file)

ConnectorAt(w) ==
    CHOOSE k \in 1..Len(w) :
        /\ w[k] \in {BoxTee, BoxCorner}
        /\ \A j \in 1..(k - 1) : w[j] \notin {BoxTee, BoxCorner}

\* How many levels below the root the directory of a written entry is.
Level(k) == (ConnectorAt(output_file[k]) - 1) \div 4

ConnectorOf(k) ==
    LET w == output_file[k] IN SubSeq(w, ConnectorAt(w), ConnectorAt(w) + 3)

NameOf(k) ==
    LET w == output_file[k] IN SubSeq(w, ConnectorAt(w) + 4, Len(w) - 1)

\* Entry m is a later entry of the directory of entry k.
LaterSibling(k, m) ==
    /\ m > k
    /\ Level(m) = Level(k)
    /\ \A n \in (k + 1)..m : Level(n) >= Level(k)

LastWritten(k) == ~\E m \in Entries : LaterSibling(k, m)

\* The contents of no directory nested more than max_depth levels below the
\* root are listed, and no such directory is being listed.
NoListingBelowMaxDepth ==
    /\ \A k \in Entries : Level(k) <= max_depth
    /\ \A c \in 1..Len(calls) : calls[c].entered => calls[c].depth <= max_depth

\* No entry with an ignored name is written, and walk is in none.
IgnoredNeitherWrittenNorEntered ==
    /\ \A k \in Entries : ~ignored(NameOf(k))
    /\ \A c \in 2..Len(calls) : ~ignored(calls[c].path.name)

\* In the finished listing the corner connector is on the last written entry
\* of each directory and on no other entry.
CornerOnLastWritten ==
    (export_pc = "closed") =>
        \A k \in Entries : (ConnectorOf(k) = corner_connector) <=> LastWritten(k)

\* C21: export_structure terminates on every finite directory tree, and its
\* listing is bounded: the contents of a directory nested more than
\* max_depth levels below the root are never listed, an entry whose name
\* contains an ignored substring or starts with "." is neither written nor
\* descended into, and in each listed directory with a written entry the
\* last written entry, and only it, carries the corner connector.
C21_BoundedListing ==
    /\ <>(export_pc = "closed")
    /\ [](NoListingBelowMaxDepth
            /\ IgnoredNeitherWrittenNorEntered
            /\ CornerOnLastWritten)

====
